---- MODULE Spec2Model ----
(***************************************************************************)
(* The stock/sales ledger of src/src/InventoryManager.jsx: the App         *)
(* component's state (inventory, sales, message, isDataLoaded, activeTab), *)
(* the state of the components it mounts, localStorage, the clock and the  *)
(* file reads in flight, with one action per event handler or effect.      *)
(*                                                                         *)
(* Representation.  A JavaScript string is a sequence of one-character     *)
(* strings ("C1" is <<"C", "1">>, '' is << >>).  A JavaScript number is a  *)
(* record Num(v), NaN or Null (JSON null); quantities carry units, rates   *)
(* and amounts carry thousandths.  Date.now() is the variable now, and     *)
(* new Date(now).toISOString() is ISOString(now).                          *)
(*                                                                         *)
(* HTML attributes (required, min, max, disabled) are presentation and are *)
(* not modelled: a handler is an operation that can be invoked whenever    *)
(* the component that owns it is mounted.                                  *)
(***************************************************************************)
EXTENDS Integers, Sequences, FiniteSets, TLC

VARIABLES
    inventory,        \* App state: useState([]), line 59
    sales,            \* App state: useState([]), line 60
    message,          \* App state: useState(''), line 61
    isDataLoaded,     \* App state: useState(false), line 62
    phase,            \* "mounting" before the mount effects ran, then "running" or "crashed"
    activeTab,        \* App state: useState('inventory'), line 58
    newItem,          \* StockEntryForm state, line 231
    saleQuantities,   \* InventoryView state, line 366
    deleteType,       \* SalesView state, line 561
    showDeleteModal,  \* SalesView state, line 560
    store,            \* localStorage: the values under the two STORAGE_KEYS
    readers,          \* the number of FileReader reads that have not completed
    now,              \* Date.now()
    lastSerialNo      \* history: the serialNo the last accepted handleAddItem assigned

appVars   == <<inventory, sales, message, isDataLoaded, phase, activeTab>>
childVars == <<newItem, saleQuantities, deleteType, showDeleteModal>>
envVars   == <<store, readers, now>>
vars      == <<appVars, childVars, envVars, lastSerialNo>>

(***************************************************************************)
(* Bounds                                                                  *)
(***************************************************************************)
MaxLines == 2      \* handleAddItem is not taken once inventory holds this many lines
MaxSales == 2      \* handleRecordSale is not taken once sales holds this many records
MaxTime  == 1      \* the clock stops advancing at this many milliseconds
MaxReads == 1      \* file reads in flight at once

(***************************************************************************)
(* JavaScript values                                                       *)
(***************************************************************************)
Num(n) == [t |-> "num", v |-> n]
NaN    == [t |-> "nan", v |-> 0]
Null   == [t |-> "null", v |-> 0]

IsNum(x) == x.t = "num"

Digits == <<"0", "1", "2", "3", "4", "5", "6", "7", "8", "9">>

IsDigit(c) == \E d \in 1..10 : Digits[d] = c

DigitVal(c) == (CHOOSE d \in 1..10 : Digits[d] = c) - 1

\* the number of leading decimal digits of s
RECURSIVE DigitPrefixLen(_)
DigitPrefixLen(s) ==
    IF s = << >> \/ ~IsDigit(Head(s)) THEN 0 ELSE 1 + DigitPrefixLen(Tail(s))

\* the value of a sequence of decimal digits
RECURSIVE DigitsVal(_)
DigitsVal(s) ==
    IF s = << >> THEN 0
    ELSE 10 * DigitsVal(SubSeq(s, 1, Len(s) - 1)) + DigitVal(s[Len(s)])

\* Number.prototype.toString of a non-negative integer
RECURSIVE NumberToString(_)
NumberToString(n) ==
    IF n < 10 THEN <<Digits[n + 1]>>
    ELSE NumberToString(n \div 10) \o <<Digits[(n % 10) + 1]>>

\* parseInt(s, 10) of an unsigned text: the leading digits, NaN when there are none
ParseInt(s) ==
    LET n == DigitPrefixLen(s)
    IN  IF n = 0 THEN NaN ELSE Num(DigitsVal(SubSeq(s, 1, n)))

\* the first three fraction digits as thousandths
FracMilli(f) ==
    LET d(i) == IF i <= Len(f) THEN DigitVal(f[i]) ELSE 0
    IN  100 * d(1) + 10 * d(2) + d(3)

\* parseFloat(s) of an unsigned text, in thousandths: digits, then an optional
\* '.' and digits; NaN when no digit is read
ParseFloat(s) ==
    LET n      == DigitPrefixLen(s)
        rest   == SubSeq(s, n + 1, Len(s))
        hasDot == rest # << >> /\ Head(rest) = "."
        frac   == IF hasDot THEN SubSeq(Tail(rest), 1, DigitPrefixLen(Tail(rest)))
                  ELSE << >>
    IN  IF n = 0 /\ frac = << >> THEN NaN
        ELSE Num(1000 * DigitsVal(SubSeq(s, 1, n)) + FracMilli(frac))

\* new Date(ms).toISOString(): a text that Date parses back to ms
ISOString(ms) == <<"T">> \o NumberToString(ms)

\* new Date(text) as a number: the time value, NaN for an Invalid Date
DateValue(text) ==
    IF Len(text) >= 2 /\ Head(text) = "T" /\ DigitPrefixLen(Tail(text)) = Len(text) - 1
    THEN Num(DigitsVal(Tail(text)))
    ELSE NaN

\* ToNumber of a number or null, as the relational and arithmetic operators apply it
ToNumber(x) == IF x.t = "null" THEN Num(0) ELSE x

\* a <= b, a > b, a - b and a * b of JavaScript: a comparison with NaN is false
JSLe(a, b) == IsNum(ToNumber(a)) /\ IsNum(ToNumber(b)) /\ ToNumber(a).v <= ToNumber(b).v

JSGt(a, b) == IsNum(ToNumber(a)) /\ IsNum(ToNumber(b)) /\ ToNumber(a).v > ToNumber(b).v

JSSub(a, b) ==
    IF IsNum(ToNumber(a)) /\ IsNum(ToNumber(b)) THEN Num(ToNumber(a).v - ToNumber(b).v)
    ELSE NaN

JSMul(a, b) ==
    IF IsNum(ToNumber(a)) /\ IsNum(ToNumber(b)) THEN Num(ToNumber(a).v * ToNumber(b).v)
    ELSE NaN

\* parseFloat of a number value: of its text, so null ("null") gives NaN
ParseFloatOfNumber(x) == IF IsNum(x) THEN x ELSE NaN

\* The products quantity * rate (rate in thousandths) that lie halfway between two
\* hundredths as decimals and whose IEEE double lies below the halfway point:
\* 1 * 1.005 = 1.00499999999999989..., 3 * 1.005 = 3.01499999999999968...
HalfwayBelow == {<<1, 1005>>, <<3, 1005>>}

\* Number.prototype.toFixed(2) of quantity * rate, as text
ToFixed2(q, r) ==
    IF ~IsNum(JSMul(q, r)) THEN <<"N", "a", "N">>
    ELSE LET p    == JSMul(q, r).v
             down == p - (p % 10)
             n    == IF (p % 10) > 5 \/ ((p % 10) = 5 /\ <<q.v, r.v>> \notin HalfwayBelow)
                     THEN down + 10 ELSE down
         IN  NumberToString(n \div 1000) \o <<".">>
                 \o <<Digits[((n \div 100) % 10) + 1], Digits[((n \div 10) % 10) + 1]>>

calculateAmount(quantity, rate) ==
    ToFixed2(ParseFloatOfNumber(quantity), ParseFloatOfNumber(rate))

(***************************************************************************)
(* Sorting the sales history                                               *)
(***************************************************************************)
\* Compare with its operands exchanged: oldest first
CompareAscending(a, b) ==
    LET d == JSSub(DateValue(a.saleDate), DateValue(b.saleDate))
    IN  IF IsNum(d) THEN d.v ELSE 0

\* the comparator (a, b) => new Date(b.saleDate) - new Date(a.saleDate); a NaN result
\* counts as 0 in Array.prototype.sort
Compare(a, b) ==
    LET d == JSSub(DateValue(b.saleDate), DateValue(a.saleDate))
    IN  IF IsNum(d) THEN d.v ELSE 0

\* The comparator is a consistent comparator for s unless a record with an invalid
\* date (equal to everything) sits among records with different valid dates.
ConsistentComparator(s) ==
    \A i, j, k \in DOMAIN s :
        (Compare(s[i], s[j]) = 0 /\ Compare(s[j], s[k]) = 0) => Compare(s[i], s[k]) = 0

\* the stable sort of s by Compare
RECURSIVE StableSort(_)
StableSort(s) ==
    IF s = << >> THEN << >>
    ELSE LET rest == StableSort(SubSeq(s, 1, Len(s) - 1))
             x    == s[Len(s)]
             k    == Cardinality({i \in DOMAIN rest : Compare(rest[i], x) <= 0})
         IN  SubSeq(rest, 1, k) \o <<x>> \o SubSeq(rest, k + 1, Len(rest))

\* SortOutcomes of the first entry alone
SortOutcomesNewestOnly(s) == IF s = << >> THEN {<< >>} ELSE {<<Head(s)>>}

\* Array.prototype.sort: stable for a consistent comparator, otherwise the order is
\* implementation-defined
SortOutcomes(s) ==
    IF ConsistentComparator(s) THEN {StableSort(s)}
    ELSE {[i \in DOMAIN s |-> s[p[i]]] : p \in Permutations(DOMAIN s)}

(***************************************************************************)
(* localStorage and JSON                                                   *)
(***************************************************************************)
\* JSON.stringify then JSON.parse of a number: NaN is written as null
JSONNumber(x) == IF IsNum(x) THEN x ELSE Null

JSONLine(l) ==
    [l EXCEPT !.quantity = JSONNumber(@), !.rate = JSONNumber(@), !.amount = JSONNumber(@)]

JSONSale(r) ==
    [r EXCEPT !.rate = JSONNumber(@), !.quantitySold = JSONNumber(@),
              !.amountSold = JSONNumber(@)]

JSONInventory(inv) == [i \in DOMAIN inv |-> JSONLine(inv[i])]

JSONSales(sl) == [i \in DOMAIN sl |-> JSONSale(sl[i])]

\* what a key of localStorage holds: nothing, text that is not JSON, a JSON array
\* (v its entries) or JSON of another shape
StoredArray(v) == [kind |-> "array", v |-> v]
Missing        == [kind |-> "missing", v |-> << >>]
Corrupt        == [kind |-> "corrupt", v |-> << >>]
NotAnArray     == [kind |-> "nonarray", v |-> << >>]

\* saveDataToLocalStorage that writes nothing
saveDataNowhere(st, key, data) == st

saveDataToLocalStorage(st, key, data) == [st EXCEPT ![key] = StoredArray(data)]

(***************************************************************************)
(* Rendering                                                               *)
(***************************************************************************)
initialState ==
    [id |-> << >>, code |-> << >>, group |-> << >>, name |-> << >>,
     quantity |-> <<"1">>, rate |-> <<"0">>]

\* the ids a sale quantity can be kept for: '' and the ids of restored lines
Ids == {<< >>, <<"a">>, <<"b">>}

NoSaleQuantities == [id \in Ids |-> 0]

\* StockEntryForm, InventoryView, SalesView and DataManagement are declared inside
\* App, so each render of App mounts them anew with their initial state.
Remount ==
    /\ newItem' = initialState
    /\ saleQuantities' = NoSaleQuantities
    /\ deleteType' = "null"
    /\ showDeleteModal' = FALSE

\* setMessage(m).  Every handler follows it with setTimeout(() => setMessage(''), ...),
\* so a timer is pending whenever a message shows, and a timer that fires later
\* finds the message empty or clears it: MessageTimeout.
ShowMessage(m) == message' = m

AddErrorMessage ==
    "Error: Please fill all required fields and ensure Quantity/Rate are positive."

AddedMessage == "Stock added successfully!"

SaleErrorMessage == "Error: Sale quantity is invalid or exceeds stock."

SoldMessage == "sold and recorded!"

DeletedSalesMessage == "Successfully deleted all Sales History records from local storage."

DeletedInventoryMessage ==
    "Successfully deleted all Remaining Stock (Inventory) records from local storage."

\* a timer set by a handler fires: setMessage('')
MessageTimeout ==
    /\ phase = "running"
    /\ message # ""
    /\ message' = ""
    /\ Remount
    /\ UNCHANGED <<inventory, sales, isDataLoaded, phase, activeTab, envVars, lastSerialNo>>

\* TabButton onClick
setActiveTab(id) ==
    /\ phase = "running"
    /\ activeTab # id
    /\ activeTab' = id
    /\ Remount
    /\ UNCHANGED <<inventory, sales, message, isDataLoaded, phase, envVars,
                   lastSerialNo>>

\* a millisecond passes
Tick ==
    /\ now < MaxTime
    /\ now' = now + 1
    /\ UNCHANGED <<appVars, childVars, store, readers, lastSerialNo>>

(***************************************************************************)
(* StockEntryForm                                                          *)
(***************************************************************************)
\* value.replace(/[^0-9.]/g, '')
RECURSIVE StripNonNumeric(_)
StripNonNumeric(s) ==
    IF s = << >> THEN << >>
    ELSE IF IsDigit(Head(s)) \/ Head(s) = "." THEN <<Head(s)>> \o StripNonNumeric(Tail(s))
    ELSE StripNonNumeric(Tail(s))

DotCount(s) == Cardinality({i \in DOMAIN s : s[i] = "."})

\* what the user can put into code or name, into quantity and into rate
TextInputs == {<< >>, <<"C">>}

QuantityInputs == {<< >>, <<"2">>, <<"a">>}

RateInputs == {<<"2">>, <<".">>, <<"1", ".", "2", ".", "3">>}

handleChange(name, value) ==
    /\ phase = "running"
    /\ activeTab = "add"
    /\ LET stripped == StripNonNumeric(value)
           newValue == IF name \in {"quantity", "rate"}
                       THEN IF stripped # << >> /\ Head(stripped) = "."
                            THEN <<"0">> \o stripped ELSE stripped
                       ELSE value
       IN  IF name \in {"quantity", "rate"} /\ DotCount(newValue) > 1
           THEN UNCHANGED newItem
           ELSE newItem' = [newItem EXCEPT ![name] = newValue]
    /\ UNCHANGED <<appVars, saleQuantities, deleteType, showDeleteModal,
                   envVars, lastSerialNo>>

\* the next serial number: one more than the largest serialNo that parses
RECURSIVE MaxSerial(_)
MaxSerial(inv) ==
    IF inv = << >> THEN 0
    ELSE LET maxSerial      == MaxSerial(SubSeq(inv, 1, Len(inv) - 1))
             existingSerial == ParseInt(inv[Len(inv)].serialNo)
         IN  IF IsNum(existingSerial) /\ existingSerial.v > maxSerial
             THEN existingSerial.v ELSE maxSerial

\* getNextSerialNo without the increment
getNextSerialNoSameAsMax(inv) == NumberToString(MaxSerial(inv))

\* getNextSerialNo that counts the lines
getNextSerialNoByCount(inv) == NumberToString(Len(inv) + 1)

getNextSerialNo(inv) == NumberToString(MaxSerial(inv) + 1)

\* { id: newId, serialNo: nextSerialNo, ...newItem, quantity, rate, amount, dateAdded }:
\* a later property replaces an earlier one of the same name, and newItem has an id
itemToAdd(form, newId, nextSerialNo, parsedQuantity, parsedRate, ms) ==
    LET o == [quantity |-> parsedQuantity, rate |-> parsedRate,
              amount |-> ParseFloat(calculateAmount(parsedQuantity, parsedRate)),
              dateAdded |-> ISOString(ms)]
             @@ form
             @@ [id |-> newId, serialNo |-> nextSerialNo]
    IN  [id |-> o.id, serialNo |-> o.serialNo, code |-> o.code, group |-> o.group,
         name |-> o.name, quantity |-> o.quantity, rate |-> o.rate, amount |-> o.amount,
         dateAdded |-> o.dateAdded]

\* the validation of handleAddItem: TRUE when the form is rejected
AddRejected(form) ==
    \/ form.code = << >>
    \/ form.name = << >>
    \/ JSLe(ParseInt(form.quantity), Num(0))
    \/ JSLe(ParseFloat(form.rate), Num(0))

handleAddItem ==
    /\ phase = "running"
    /\ activeTab = "add"
    /\ IF AddRejected(newItem)
       THEN /\ ShowMessage(AddErrorMessage)
            /\ IF message # AddErrorMessage THEN Remount ELSE UNCHANGED childVars
            /\ UNCHANGED <<inventory, store, lastSerialNo>>
       ELSE /\ Len(inventory) < MaxLines
            /\ LET nextSerialNo == getNextSerialNo(inventory)
               IN  /\ inventory' = Append(inventory,
                                      itemToAdd(newItem, NumberToString(now), nextSerialNo,
                                                ParseInt(newItem.quantity),
                                                ParseFloat(newItem.rate), now))
                   /\ lastSerialNo' = nextSerialNo
            /\ ShowMessage(AddedMessage)
            /\ Remount
            /\ store' = saveDataToLocalStorage(store, "inventory", JSONInventory(inventory'))
    /\ UNCHANGED <<sales, isDataLoaded, phase, activeTab, readers, now>>

(***************************************************************************)
(* InventoryView                                                           *)
(***************************************************************************)
\* what the user can put into a row's sale quantity field
SaleQuantityInputs == {<< >>, <<"1">>, <<"2">>}

\* Math.max(0, parseInt(value, 10) || 0)
SaleQuantityOf(value) ==
    LET parsed == ParseInt(value)
        qty    == IF IsNum(parsed) THEN parsed.v ELSE 0
    IN  IF qty > 0 THEN qty ELSE 0

\* onChange of the sale quantity field of row i
handleSaleQuantityChange(i, value) ==
    /\ phase = "running"
    /\ activeTab = "inventory"
    /\ i \in DOMAIN inventory
    /\ saleQuantities' = [saleQuantities EXCEPT ![inventory[i].id] = SaleQuantityOf(value)]
    /\ UNCHANGED <<appVars, newItem, deleteType, showDeleteModal, envVars,
                   lastSerialNo>>

\* SaleRejected without the comparison with the stock
SaleRejectedOnlyNonPositive(item, quantityToSell) == quantityToSell <= 0

\* the validation of handleRecordSale: TRUE when the sale is rejected
SaleRejected(item, quantityToSell) ==
    quantityToSell <= 0 \/ JSGt(Num(quantityToSell), item.quantity)

\* InventoryAfterSale that keeps a depleted line at its new quantity
InventoryAfterSaleKeepsLine(prevInventory, item, newRemainingQuantity) ==
    [k \in DOMAIN prevInventory |->
        IF prevInventory[k].id = item.id
        THEN [prevInventory[k] EXCEPT !.quantity = newRemainingQuantity]
        ELSE prevInventory[k]]

\* the updater handleRecordSale passes to setInventory
InventoryAfterSale(prevInventory, item, newRemainingQuantity) ==
    IF JSGt(newRemainingQuantity, Num(0))
    THEN [k \in DOMAIN prevInventory |->
             IF prevInventory[k].id = item.id
             THEN [prevInventory[k] EXCEPT !.quantity = newRemainingQuantity]
             ELSE prevInventory[k]]
    ELSE SelectSeq(prevInventory, LAMBDA invItem : invItem.id # item.id)

newSale(item, quantityToSell, ms) ==
    [id |-> NumberToString(ms), inventoryId |-> item.id, serialNo |-> item.serialNo,
     code |-> item.code, group |-> item.group, name |-> item.name, rate |-> item.rate,
     quantitySold |-> Num(quantityToSell),
     amountSold |-> ParseFloat(calculateAmount(Num(quantityToSell), item.rate)),
     saleDate |-> ISOString(ms)]

\* onClick of Record Sale in row i
handleRecordSale(i) ==
    /\ phase = "running"
    /\ activeTab = "inventory"
    /\ i \in DOMAIN inventory
    /\ LET item           == inventory[i]
           quantityToSell == saleQuantities[item.id]
       IN  IF SaleRejected(item, quantityToSell)
           THEN /\ ShowMessage(SaleErrorMessage)
                /\ IF message # SaleErrorMessage THEN Remount ELSE UNCHANGED childVars
                /\ UNCHANGED <<inventory, sales, store>>
           ELSE /\ Len(sales) < MaxSales
                /\ inventory' = InventoryAfterSale(inventory, item,
                                                   JSSub(item.quantity, Num(quantityToSell)))
                /\ sales' \in SortOutcomes(<<newSale(item, quantityToSell, now)>> \o sales)
                /\ ShowMessage(SoldMessage)
                /\ Remount
                /\ store' = saveDataToLocalStorage(
                                saveDataToLocalStorage(store, "inventory",
                                                       JSONInventory(inventory')),
                                "sales", JSONSales(sales'))
    /\ UNCHANGED <<isDataLoaded, phase, activeTab, readers, now, lastSerialNo>>

(***************************************************************************)
(* SalesView                                                               *)
(***************************************************************************)
\* onClick of a bulk delete button: setDeleteType(type); setShowDeleteModal(true)
openDeleteModal(type) ==
    /\ phase = "running"
    /\ activeTab = "sales"
    /\ deleteType' = type
    /\ showDeleteModal' = TRUE
    /\ UNCHANGED <<appVars, newItem, saleQuantities, envVars, lastSerialNo>>

\* onClick of Cancel in the modal
cancelDelete ==
    /\ phase = "running"
    /\ activeTab = "sales"
    /\ showDeleteModal
    /\ showDeleteModal' = FALSE
    /\ UNCHANGED <<appVars, newItem, saleQuantities, deleteType, envVars,
                   lastSerialNo>>

\* handleDeleteRecords that clears both collections
handleDeleteRecordsBoth ==
    /\ phase = "running"
    /\ activeTab = "sales"
    /\ showDeleteModal
    /\ deleteType \in {"sales", "inventory"}
    /\ sales' = << >>
    /\ inventory' = << >>
    /\ ShowMessage(IF deleteType = "sales" THEN DeletedSalesMessage
                   ELSE DeletedInventoryMessage)
    /\ Remount
    /\ store' = saveDataToLocalStorage(saveDataToLocalStorage(store, "sales", << >>),
                                       "inventory", << >>)
    /\ UNCHANGED <<isDataLoaded, phase, activeTab, readers, now, lastSerialNo>>

\* onClick of Delete Permanently in the modal
handleDeleteRecords ==
    /\ phase = "running"
    /\ activeTab = "sales"
    /\ showDeleteModal
    /\ IF deleteType = "sales"
       THEN /\ sales' = << >>
            /\ ShowMessage(DeletedSalesMessage)
            /\ Remount
            /\ store' = saveDataToLocalStorage(store, "sales", << >>)
            /\ UNCHANGED inventory
       ELSE IF deleteType = "inventory"
       THEN /\ inventory' = << >>
            /\ ShowMessage(DeletedInventoryMessage)
            /\ Remount
            /\ store' = saveDataToLocalStorage(store, "inventory", << >>)
            /\ UNCHANGED sales
       ELSE /\ showDeleteModal' = FALSE
            /\ UNCHANGED <<inventory, sales, message, store, newItem,
                           saleQuantities, deleteType>>
    /\ UNCHANGED <<isDataLoaded, phase, activeTab, readers, now, lastSerialNo>>

(***************************************************************************)
(* The ledger from an empty store: stock entry, sales and bulk deletes     *)
(***************************************************************************)
ChildInit ==
    /\ newItem = initialState
    /\ saleQuantities = NoSaleQuantities
    /\ deleteType = "null"
    /\ showDeleteModal = FALSE

\* the state once App has mounted over an empty localStorage
InitLedger ==
    /\ inventory = << >>
    /\ sales = << >>
    /\ message = ""
    /\ isDataLoaded = TRUE
    /\ phase = "running"
    /\ activeTab = "inventory"
    /\ ChildInit
    /\ store = [inventory |-> StoredArray(<< >>), sales |-> StoredArray(<< >>)]
    /\ readers = 0
    /\ now = 0
    /\ lastSerialNo = << >>

\* the user types into the stock entry form
TypeInForm(texts, quantities, rates) ==
    \/ \E name \in {"code", "name"}, value \in texts : handleChange(name, value)
    \/ \E value \in quantities : handleChange("quantity", value)
    \/ \E value \in rates : handleChange("rate", value)

\* the events of the three tabs other than typing into the form
LedgerEvents(saleQuantityInputs) ==
    \/ MessageTimeout
    \/ \E id \in {"add", "inventory", "sales"} : setActiveTab(id)
    \/ handleAddItem
    \/ \E i \in DOMAIN inventory, value \in saleQuantityInputs :
           handleSaleQuantityChange(i, value)
    \/ \E i \in DOMAIN inventory : handleRecordSale(i)
    \/ \E type \in {"sales", "inventory"} : openDeleteModal(type)
    \/ cancelDelete
    \/ handleDeleteRecords

NextLedger ==
    \/ Tick
    \/ TypeInForm(TextInputs, QuantityInputs, RateInputs)
    \/ LedgerEvents(SaleQuantityInputs)

SpecLedger == InitLedger /\ [][NextLedger]_vars

(***************************************************************************)
(* Stored and restored data                                                *)
(***************************************************************************)
\* records as a store or a backup file may hold them
LineA ==
    [id |-> <<"a">>, serialNo |-> <<"5">>, code |-> <<"C">>, group |-> << >>,
     name |-> <<"C">>, quantity |-> Num(2), rate |-> Num(2000), amount |-> Num(4000),
     dateAdded |-> ISOString(3)]

LineB ==
    [id |-> <<"b">>, serialNo |-> <<"x">>, code |-> <<"C">>, group |-> << >>,
     name |-> <<"C">>, quantity |-> Num(1), rate |-> Num(2000), amount |-> Num(2000),
     dateAdded |-> ISOString(4)]

SaleAt(saleDate) ==
    [id |-> <<"9">>, inventoryId |-> <<"a">>, serialNo |-> <<"5">>, code |-> <<"C">>,
     group |-> << >>, name |-> <<"C">>, rate |-> Num(2000), quantitySold |-> Num(1),
     amountSold |-> Num(2000), saleDate |-> saleDate]

SaleOld == SaleAt(ISOString(3))

SaleNew == SaleAt(ISOString(4))

SaleUndated == SaleAt(<<"?">>)

\* what localStorage holds when the page opens
InitialStores ==
    {[inventory |-> Missing, sales |-> Missing],
     [inventory |-> Corrupt, sales |-> Corrupt],
     [inventory |-> StoredArray(<<LineA>>), sales |-> StoredArray(<<SaleOld, SaleNew>>)],
     [inventory |-> NotAnArray, sales |-> Missing],
     [inventory |-> Missing, sales |-> NotAnArray]}

\* the content of a file: text that is not JSON, the JSON null, or a JSON object
\* whose inventory and sales members are arrays or not
BackupFile(inv, sl) ==
    [kind |-> "object", inventoryIsArray |-> TRUE, salesIsArray |-> TRUE,
     inventory |-> inv, sales |-> sl]

NotJSONFile ==
    [kind |-> "text", inventoryIsArray |-> FALSE, salesIsArray |-> FALSE,
     inventory |-> << >>, sales |-> << >>]

JSONNullFile == [NotJSONFile EXCEPT !.kind = "null"]

\* {"inventory": "not-an-array", "sales": []}
InventoryNotArrayFile == [BackupFile(<< >>, << >>) EXCEPT !.inventoryIsArray = FALSE]

\* {"inventory": []}
SalesNotArrayFile == [BackupFile(<< >>, << >>) EXCEPT !.salesIsArray = FALSE]

\* {"inventory": [], "sales": [null, {...}]}
NullSaleFile == BackupFile(<< >>, <<Null, SaleOld>>)

\* the files the user can pick for a restore
Files ==
    {NotJSONFile, JSONNullFile, InventoryNotArrayFile, SalesNotArrayFile, NullSaleFile,
     BackupFile(<<LineA, LineB>>, <<SaleOld, SaleNew>>),
     BackupFile(<< >>, <<SaleOld, SaleUndated, SaleNew>>)}

(***************************************************************************)
(* App: the effects of the first render                                    *)
(***************************************************************************)
\* loadDataFromLocalStorage(key): [] for a missing or corrupt value, else what
\* JSON.parse returns
loadDataFromLocalStorage(st, key) ==
    IF st[key].kind \in {"missing", "corrupt"} THEN StoredArray(<< >>) ELSE st[key]

\* The load effect and the render and save effects that follow it.  sort is not a
\* function of a value that is no array, so the load effect throws; a stored
\* inventory that is no array makes the next render throw (inventory.map).  React
\* then unmounts App.
Mount ==
    /\ phase = "mounting"
    /\ LET loadedInventory == loadDataFromLocalStorage(store, "inventory")
           loaded          == loadDataFromLocalStorage(store, "sales")
       IN  IF loaded.kind # "array" \/ loadedInventory.kind # "array"
           THEN /\ phase' = "crashed"
                /\ UNCHANGED <<inventory, sales, isDataLoaded, store>>
           ELSE /\ inventory' = loadedInventory.v
                /\ sales' \in SortOutcomes(loaded.v)
                /\ isDataLoaded' = TRUE
                /\ phase' = "running"
                /\ store' = saveDataToLocalStorage(
                                saveDataToLocalStorage(store, "inventory",
                                                       JSONInventory(inventory')),
                                "sales", JSONSales(sales'))
    /\ UNCHANGED <<message, activeTab, childVars, readers, now, lastSerialNo>>

(***************************************************************************)
(* DataManagement                                                          *)
(***************************************************************************)
ExportedMessage == "Backup file downloaded successfully!"

RestoredMessage == "Data successfully restored!"

ImportSyntaxErrorMessage == "Error: Failed to import data. Unexpected token"

ImportTypeErrorMessage == "Error: Failed to import data. Cannot read properties of null"

ImportFormatErrorMessage ==
    "Error: Failed to import data. Invalid backup file format. Missing 'inventory' or 'sales' arrays."

ImportNullEntryMessage ==
    "Error: Failed to import data. Cannot read properties of null (reading 'saleDate')"

ReadErrorMessage == "Error reading file."

\* sort calls the comparator once the array has two entries, and the comparator
\* throws when it reads saleDate of a null entry
SortThrows(s) == Len(s) >= 2 /\ \E i \in DOMAIN s : s[i] = Null

\* JSON.stringify(backupData, null, 2) of { inventory, sales, version, timestamp },
\* the content of the file handleExportData hands to downloadFile; a restore reads
\* only the two collections
backupData(inv, sl) == BackupFile(JSONInventory(inv), JSONSales(sl))

\* onClick of Download Backup
handleExportData ==
    /\ phase = "running"
    /\ ShowMessage(ExportedMessage)
    /\ IF message # ExportedMessage THEN Remount ELSE UNCHANGED childVars
    /\ UNCHANGED <<inventory, sales, isDataLoaded, phase, activeTab, store, readers, now,
                   lastSerialNo>>

\* onChange of the file input with a file picked: reader.readAsText(file)
handleImportData ==
    /\ phase = "running"
    /\ readers < MaxReads
    /\ readers' = readers + 1
    /\ UNCHANGED <<appVars, childVars, store, now, lastSerialNo>>

\* ImportError that looks at the inventory member only
ImportErrorInventoryOnly(file) ==
    IF file.kind = "text" THEN ImportSyntaxErrorMessage
    ELSE IF file.kind = "null" THEN ImportTypeErrorMessage
    ELSE IF ~file.inventoryIsArray THEN ImportFormatErrorMessage
    ELSE IF SortThrows(file.sales) THEN ImportNullEntryMessage
    ELSE ""

\* the message of the error that reader.onload catches, "" when it catches none
ImportError(file) ==
    IF file.kind = "text" THEN ImportSyntaxErrorMessage
    ELSE IF file.kind = "null" THEN ImportTypeErrorMessage
    ELSE IF ~file.inventoryIsArray \/ ~file.salesIsArray THEN ImportFormatErrorMessage
    ELSE IF SortThrows(file.sales) THEN ImportNullEntryMessage
    ELSE ""

\* the error is thrown by sort, after setInventory(loadedData.inventory) was called
ThrownAfterSetInventory(file) == ImportError(file) = ImportNullEntryMessage

\* reader.onload, the read having produced the content of file
readerOnload(file) ==
    /\ phase = "running"
    /\ readers > 0
    /\ readers' = readers - 1
    /\ IF ThrownAfterSetInventory(file)
       THEN /\ inventory' = file.inventory
            /\ ShowMessage(ImportError(file))
            /\ Remount
            /\ store' = saveDataToLocalStorage(store, "inventory",
                                               JSONInventory(inventory'))
            /\ UNCHANGED sales
       ELSE IF ImportError(file) # ""
       THEN /\ ShowMessage(ImportError(file))
            /\ IF message # ImportError(file) THEN Remount ELSE UNCHANGED childVars
            /\ UNCHANGED <<inventory, sales, store>>
       ELSE /\ inventory' = file.inventory
            /\ sales' \in SortOutcomes(file.sales)
            /\ ShowMessage(RestoredMessage)
            /\ Remount
            /\ store' = saveDataToLocalStorage(
                            saveDataToLocalStorage(store, "inventory",
                                                   JSONInventory(inventory')),
                            "sales", JSONSales(sales'))
    /\ UNCHANGED <<isDataLoaded, phase, activeTab, now, lastSerialNo>>

\* reader.onerror
readerOnerror ==
    /\ phase = "running"
    /\ readers > 0
    /\ readers' = readers - 1
    /\ ShowMessage(ReadErrorMessage)
    /\ IF message # ReadErrorMessage THEN Remount ELSE UNCHANGED childVars
    /\ UNCHANGED <<inventory, sales, isDataLoaded, phase, activeTab, store, now,
                   lastSerialNo>>

\* the files a read can produce: the user's files, and the file handleExportData
\* writes for the ledger as it is
ReadableFiles == Files \cup {backupData(inventory, sales)}

(***************************************************************************)
(* The application from the opening of the page                            *)
(***************************************************************************)
Init ==
    /\ inventory = << >>
    /\ sales = << >>
    /\ message = ""
    /\ isDataLoaded = FALSE
    /\ phase = "mounting"
    /\ activeTab = "inventory"
    /\ ChildInit
    /\ store \in InitialStores
    /\ readers = 0
    /\ now = 0
    /\ lastSerialNo = << >>

Next ==
    \/ Mount
    \/ TypeInForm({<<"C">>}, {<< >>}, {<<"2">>})
    \/ LedgerEvents({<<"1">>})
    \/ handleExportData
    \/ handleImportData
    \/ \E file \in ReadableFiles : readerOnload(file)
    \/ readerOnerror

Spec == Init /\ [][Next]_vars

(***************************************************************************)
(* A backup restored as soon as it is written                              *)
(***************************************************************************)
NextRoundTrip ==
    \/ TypeInForm({<<"C">>}, {<< >>, <<"2">>}, {<<"2">>})
    \/ LedgerEvents({<<"1">>})
    \/ handleExportData
    \/ handleImportData
    \/ readerOnload(backupData(inventory, sales))
    \/ readerOnerror

SpecRoundTrip == InitLedger /\ [][NextRoundTrip]_vars

(***************************************************************************)
(* Stock entry and sales alone, with a rate of three decimals              *)
(***************************************************************************)
NextStockAndSales ==
    \/ TypeInForm({<<"C">>}, {<<"2">>}, {<<"2">>, <<"1", ".", "0", "0", "5">>})
    \/ MessageTimeout
    \/ \E id \in {"add", "inventory"} : setActiveTab(id)
    \/ handleAddItem
    \/ \E i \in DOMAIN inventory, value \in {<<"1">>, <<"2">>} :
           handleSaleQuantityChange(i, value)
    \/ \E i \in DOMAIN inventory : handleRecordSale(i)

SpecStockAndSales == InitLedger /\ [][NextStockAndSales]_vars

(***************************************************************************)
(* Properties                                                              *)
(***************************************************************************)
\* handleRecordSale(i) takes its accepting branch
SaleAccepted(i) ==
    handleRecordSale(i) /\ ~SaleRejected(inventory[i], saleQuantities[inventory[i].id])

\* handleAddItem takes its accepting branch
AddAccepted == handleAddItem /\ ~AddRejected(newItem)

\* C1: a sale of q units of line L, 1 <= q <= L.quantity, leaves L in place with
\* quantity L.quantity - q when that is positive, and leaves no line with L's id
\* when it is 0.
C1_SaleUpdatesOrRemovesLine ==
    [][\A i \in DOMAIN inventory :
          LET L == inventory[i]
              q == saleQuantities[L.id]
          IN  (handleRecordSale(i) /\ IsNum(L.quantity) /\ 1 <= q /\ q <= L.quantity.v)
                  => IF L.quantity.v - q > 0
                     THEN /\ i \in DOMAIN inventory'
                          /\ inventory'[i] = [L EXCEPT !.quantity = Num(L.quantity.v - q)]
                     ELSE \A k \in DOMAIN inventory' : inventory'[k].id # L.id]_vars

\* a sale has just left a line with one of its two units
C1_Witness ==
    /\ message = SoldMessage
    /\ sales # << >> /\ sales[1].quantitySold = Num(1)
    /\ inventory # << >> /\ inventory[1].quantity = Num(1) /\ inventory[1].amount = Num(4000)

\* C2: every line in inventory has an integer quantity greater than 0.
C2_QuantitiesPositive ==
    \A i \in DOMAIN inventory : IsNum(inventory[i].quantity) /\ inventory[i].quantity.v > 0

\* C3: no two lines in inventory share an id.
C3_IdsUnique ==
    \A i, j \in DOMAIN inventory : i # j => inventory[i].id # inventory[j].id

\* C4: an accepted sale on line i leaves every other line in inventory as it was.
C4_SaleLeavesOtherLines ==
    [][\A i \in DOMAIN inventory :
          SaleAccepted(i) =>
              \A k \in DOMAIN inventory \ {i} :
                  \E m \in DOMAIN inventory' : inventory'[m] = inventory[k]]_vars

\* C5: each accepted handleAddItem assigns 1 the first time and afterwards a serialNo
\* greater than the one the accepted handleAddItem before it assigned.
C5_SerialsStrictlyIncreasing ==
    [][AddAccepted =>
          IF lastSerialNo = << >> THEN lastSerialNo' = <<"1">>
          ELSE ParseInt(lastSerialNo').v > ParseInt(lastSerialNo).v]_vars

\* C5 as amended: the serialNo an accepted handleAddItem assigns is greater than the
\* serialNo of every line then in inventory, is 1 when inventory is empty, and is
\* greater than the serialNo assigned before it while a line with that serialNo is
\* still in inventory.
C5_SerialsAboveHeldLines ==
    [][AddAccepted =>
          LET n == ParseInt(lastSerialNo')
          IN  /\ inventory'[Len(inventory')].serialNo = lastSerialNo'
              /\ IsNum(n)
              /\ \A k \in DOMAIN inventory : n.v > ParseInt(inventory[k].serialNo).v
              /\ inventory = << >> => n.v = 1
              /\ (\E k \in DOMAIN inventory : inventory[k].serialNo = lastSerialNo)
                     => n.v > ParseInt(lastSerialNo).v]_vars

\* a second line has been added while the first was held
C5_Witness ==
    /\ message = AddedMessage
    /\ Len(inventory) = 2
    /\ inventory[1].serialNo = <<"1">>
    /\ inventory[2].serialNo = <<"2">>
    /\ lastSerialNo = <<"2">>

\* no record of s precedes a record with a later saleDate
NewestFirst(s) ==
    \A i, j \in DOMAIN s :
        (i < j /\ IsNum(DateValue(s[i].saleDate)) /\ IsNum(DateValue(s[j].saleDate)))
            => DateValue(s[i].saleDate).v >= DateValue(s[j].saleDate).v

\* C6: sales is in descending saleDate order in every state, whatever saleDate the
\* records carry: a record without a date a Date can read ranks with neither side,
\* so the dated records around it are in descending order among themselves.
C6_SalesNewestFirst == NewestFirst(sales)

\* C6 as amended: sales is in descending saleDate order in every state in which the
\* saleDate of each of its records is a date that Date can read.
C6_DatedSalesNewestFirst ==
    (\A i \in DOMAIN sales : IsNum(DateValue(sales[i].saleDate))) => NewestFirst(sales)

\* a backup whose sales were oldest first has been restored
C6_Witness ==
    /\ message = RestoredMessage
    /\ sales = <<SaleNew, SaleOld>>

\* C7: restoring the backup of the ledger as it is leaves inventory and sales as
\* they are.
C7_RoundTrip ==
    [][readerOnload(backupData(inventory, sales))
          => inventory' = inventory /\ sales' = sales]_vars

\* C8: a sale of q units of line L with q <= 0 or q > L.quantity shows the sale
\* error and leaves inventory and sales as they were.
C8_InvalidSaleRejected ==
    [][\A i \in DOMAIN inventory :
          LET L == inventory[i]
              q == saleQuantities[L.id]
          IN  (handleRecordSale(i) /\ (q <= 0 \/ (IsNum(L.quantity) /\ q > L.quantity.v)))
                  => /\ message' = SaleErrorMessage
                     /\ inventory' = inventory
                     /\ sales' = sales]_vars

\* a sale has just been rejected on a ledger that holds a line and a sale
C8_Witness ==
    /\ message = SaleErrorMessage
    /\ inventory # << >> /\ IsNum(inventory[1].quantity)
    /\ sales # << >>

\* C9: a read that produces text that is not JSON, or JSON whose inventory or sales
\* member is not an array, shows an import error and leaves inventory, sales and
\* localStorage as they were.
C9_BadFileRejected ==
    [][\A file \in Files :
          ((file.kind # "object" \/ ~file.inventoryIsArray \/ ~file.salesIsArray)
              /\ readerOnload(file))
              => /\ message' \in {ImportSyntaxErrorMessage, ImportTypeErrorMessage,
                                  ImportFormatErrorMessage}
                 /\ inventory' = inventory
                 /\ sales' = sales
                 /\ store' = store]_vars

\* a file without arrays has just been rejected on a ledger that holds a line and sales
C9_Witness ==
    /\ message = ImportFormatErrorMessage
    /\ inventory # << >>
    /\ sales # << >>
    /\ store.inventory = StoredArray(JSONInventory(inventory))

\* the text is an unsigned decimal integer greater than 0
PositiveIntegerText(text) ==
    text # << >> /\ DigitPrefixLen(text) = Len(text) /\ DigitsVal(text) > 0

\* C10: handleAddItem changes neither collection when code or name is empty, the
\* quantity input is not a positive integer or the rate input is not a positive
\* number, and appends one line otherwise.
C10_InvalidAddRejected ==
    [][handleAddItem =>
          IF \/ newItem.code = << >>
             \/ newItem.name = << >>
             \/ ~PositiveIntegerText(newItem.quantity)
             \/ ~(IsNum(ParseFloat(newItem.rate)) /\ ParseFloat(newItem.rate).v > 0)
          THEN inventory' = inventory /\ sales' = sales
          ELSE Len(inventory') = Len(inventory) + 1 /\ sales' = sales]_vars

\* C11: the amount of every line in inventory is quantity * rate rounded to two
\* decimals, for the quantity the line has now.
C11_AmountFollowsQuantity ==
    \A i \in DOMAIN inventory :
        inventory[i].amount
            = ParseFloat(calculateAmount(inventory[i].quantity, inventory[i].rate))

\* p thousandths rounded to hundredths, a half going away from zero (p >= 0)
RoundHalfAwayFromZero(p) == ((p + 5) \div 10) * 10

\* C12: an accepted sale of q units of line L has 1 <= q <= L.quantity and puts into
\* sales a record with quantitySold q, rate L.rate and amountSold q * L.rate rounded
\* once to two decimals, a half going away from zero.
C12_AmountSoldRounded ==
    [][\A i \in DOMAIN inventory :
          LET L == inventory[i]
              q == saleQuantities[L.id]
          IN  SaleAccepted(i) =>
                  /\ IsNum(L.quantity) /\ 1 <= q /\ q <= L.quantity.v
                  /\ \E m \in DOMAIN sales' :
                         /\ sales'[m].quantitySold = Num(q)
                         /\ sales'[m].rate = L.rate
                         /\ sales'[m].amountSold
                                = Num(RoundHalfAwayFromZero(q * L.rate.v))]_vars

\* the units of the lines of inv, and the units of the records of sl
RECURSIVE UnitsHeld(_)
UnitsHeld(inv) ==
    IF inv = << >> THEN 0 ELSE Head(inv).quantity.v + UnitsHeld(Tail(inv))

RECURSIVE UnitsSold(_)
UnitsSold(sl) ==
    IF sl = << >> THEN 0 ELSE Head(sl).quantitySold.v + UnitsSold(Tail(sl))

\* C20: the units held plus the units sold equal the units added: they are 0 in an
\* empty ledger, an accepted handleAddItem raises them by the quantity added, and an
\* accepted sale leaves them as they are.
C20_UnitsConserved ==
    [][/\ AddAccepted =>
              UnitsHeld(inventory') + UnitsSold(sales')
                  = UnitsHeld(inventory) + UnitsSold(sales) + ParseInt(newItem.quantity).v
       /\ \A i \in DOMAIN inventory :
              SaleAccepted(i) =>
                  UnitsHeld(inventory') + UnitsSold(sales')
                      = UnitsHeld(inventory) + UnitsSold(sales)]_vars

\* C13: Delete Permanently on the inventory empties inventory and leaves sales, on
\* the sales history empties sales and leaves inventory; Cancel leaves both.
C13_BulkDeletes ==
    [][/\ (handleDeleteRecords /\ deleteType = "inventory")
              => inventory' = << >> /\ sales' = sales
       /\ (handleDeleteRecords /\ deleteType = "sales")
              => sales' = << >> /\ inventory' = inventory
       /\ cancelDelete => inventory' = inventory /\ sales' = sales]_vars

\* the inventory has just been deleted under a sales history that stays
C13_Witness ==
    /\ message = DeletedInventoryMessage
    /\ inventory = << >>
    /\ sales # << >>
    /\ store.inventory = StoredArray(<< >>)

\* the number of entries of s equal to r
Count(s, r) == Cardinality({i \in DOMAIN s : s[i] = r})

\* every record of s is in t, unchanged, as many times
RecordsKept(s, t) == \A i \in DOMAIN s : Count(t, s[i]) >= Count(s, s[i])

\* C14: every step keeps each record of sales with all its fields, except Delete
\* Permanently on the sales history and a restore that succeeds.
C14_SalesRecordsKept ==
    [][\/ RecordsKept(sales, sales')
       \/ handleDeleteRecords /\ deleteType = "sales"
       \/ message' = RestoredMessage /\ readers' < readers]_vars

\* a line was added after a sale had removed the line its record names
C14_Witness ==
    /\ message = AddedMessage
    /\ \E k \in DOMAIN sales :
           /\ sales[k].id = NumberToString(now)
           /\ sales[k].inventoryId = <<"a">>
           /\ \A j \in DOMAIN inventory : inventory[j].id # <<"a">>

C16_LoadCompletes ==
    [][Mount =>
          /\ isDataLoaded'
          /\ phase' = "running"
          /\ store.inventory.kind \in {"missing", "corrupt"} => inventory' = << >>
          /\ store.sales.kind \in {"missing", "corrupt"} => sales' = << >>]_vars

\* the integers that the serialNo of the lines of inv parse to
SerialNumbers(inv) ==
    {ParseInt(inv[k].serialNo).v :
        k \in {j \in DOMAIN inv : IsNum(ParseInt(inv[j].serialNo))}}

\* the largest of them, 0 when there is none above 0
LargestSerial(inv) ==
    CHOOSE m \in SerialNumbers(inv) \cup {0} :
        \A n \in SerialNumbers(inv) \cup {0} : n <= m

\* C17: an accepted handleAddItem gives the new line the decimal text of m + 1, m
\* the largest integer that the serialNo of a line in inventory parses to (0 when
\* none does), so a serialNo that no line in inventory has as its number.
C17_NextSerialIsMaxPlusOne ==
    [][AddAccepted =>
          LET given == inventory'[Len(inventory')].serialNo
          IN  /\ given = NumberToString(LargestSerial(inventory) + 1)
              /\ \A k \in DOMAIN inventory :
                     ParseInt(inventory[k].serialNo) # ParseInt(given)]_vars

\* a line was added to a restored inventory whose only line has a serialNo that
\* does not parse
C17_Witness ==
    /\ message = AddedMessage
    /\ Len(inventory) = 2
    /\ inventory[1] = LineB
    /\ inventory[2].serialNo = <<"1">>

\* s and t hold the same records, each as many times
SameRecords(s, t) == RecordsKept(s, t) /\ RecordsKept(t, s)

\* C18: a read that completes either puts the file's inventory and the file's sales
\* in place of inventory and sales, or leaves both as they were; and it leaves both
\* as they were when it shows an error.
C18_ImportAllOrNothing ==
    [][\A file \in Files :
          readerOnload(file) =>
              IF message' = RestoredMessage
              THEN inventory' = file.inventory /\ SameRecords(sales', file.sales)
              ELSE inventory' = inventory /\ sales' = sales]_vars

\* C19: starting a read changes neither collection; a read that completes with a
\* valid file leaves the file's inventory and the file's sales, sorted, whatever
\* happened since the read began; a read that fails or whose file is rejected
\* leaves both collections as the events since then left them.
C19_PendingRead ==
    [][/\ handleImportData => inventory' = inventory /\ sales' = sales
       /\ readerOnerror => inventory' = inventory /\ sales' = sales
       /\ \A file \in Files :
              readerOnload(file) =>
                  IF file.kind = "object" /\ file.inventoryIsArray /\ file.salesIsArray
                     /\ message' = RestoredMessage
                  THEN /\ inventory' = file.inventory
                       /\ \E p \in Permutations(DOMAIN sales') :
                              sales' = [i \in DOMAIN sales' |-> file.sales[p[i]]]
                       /\ (\A i \in DOMAIN sales' : IsNum(DateValue(sales'[i].saleDate)))
                              => NewestFirst(sales')
                  ELSE inventory' = inventory /\ sales' = sales]_vars

====
